---- MODULE Spec2Model ----
(***************************************************************************)
(* File Organizer: the classification-and-move engine (organize_directory) *)
(* and the undo replayer (undo_last_organization) of                       *)
(* src/file_organizer_gui.py, over a model of the directory tree under the *)
(* scan root, together with the Tk controls and worker threads that start  *)
(* them.                                                                   *)
(*                                                                         *)
(* File names are sequences of one-character strings, paths are sequences  *)
(* of names relative to the scan root (<<>> is the scan root itself).      *)
(***************************************************************************)
EXTENDS Integers, Sequences, FiniteSets, TLC

(***************************************************************************)
(* Bounds of the model.                                                    *)
(***************************************************************************)
\* most entries the scan root holds in an initial directory
MaxEntries == 3

\* most undo threads alive at once
MaxUndoThreads == 2

(***************************************************************************)
(* Category names and the rule table (FILE_TYPE_MAP, in its dict order).   *)
(***************************************************************************)
Images == <<"I", "m", "a", "g", "e", "s">>
Documents == <<"D", "o", "c", "u", "m", "e", "n", "t", "s">>
Videos == <<"V", "i", "d", "e", "o", "s">>
Audio == <<"A", "u", "d", "i", "o">>
Archives == <<"A", "r", "c", "h", "i", "v", "e", "s">>
Scripts == <<"S", "c", "r", "i", "p", "t", "s">>
Others == <<"O", "t", "h", "e", "r", "s">>

FILE_TYPE_MAP ==
  << [cat |-> Images,
      exts |-> <<<<".", "j", "p", "g">>,
                 <<".", "j", "p", "e", "g">>,
                 <<".", "p", "n", "g">>,
                 <<".", "g", "i", "f">>,
                 <<".", "b", "m", "p">>,
                 <<".", "s", "v", "g">>,
                 <<".", "t", "i", "f", "f">>>>],
     [cat |-> Documents,
      exts |-> <<<<".", "p", "d", "f">>,
                 <<".", "d", "o", "c", "x">>,
                 <<".", "d", "o", "c">>,
                 <<".", "t", "x", "t">>,
                 <<".", "p", "p", "t", "x">>,
                 <<".", "x", "l", "s", "x">>,
                 <<".", "o", "d", "t">>,
                 <<".", "r", "t", "f">>>>],
     [cat |-> Videos,
      exts |-> <<<<".", "m", "p", "4">>,
                 <<".", "m", "o", "v">>,
                 <<".", "a", "v", "i">>,
                 <<".", "m", "k", "v">>,
                 <<".", "f", "l", "v">>,
                 <<".", "w", "m", "v">>>>],
     [cat |-> Audio,
      exts |-> <<<<".", "m", "p", "3">>,
                 <<".", "w", "a", "v">>,
                 <<".", "a", "a", "c">>,
                 <<".", "f", "l", "a", "c">>,
                 <<".", "o", "g", "g">>>>],
     [cat |-> Archives,
      exts |-> <<<<".", "z", "i", "p">>,
                 <<".", "r", "a", "r">>,
                 <<".", "7", "z">>,
                 <<".", "t", "a", "r">>,
                 <<".", "g", "z">>>>],
     [cat |-> Scripts,
      exts |-> <<<<".", "p", "y">>,
                 <<".", "j", "s">>,
                 <<".", "h", "t", "m", "l">>,
                 <<".", "c", "s", "s">>,
                 <<".", "s", "h">>,
                 <<".", "b", "a", "t">>>>],
     [cat |-> Others,
      exts |-> <<>>] >>

\* the category names, in rule-table order
Categories == [i \in 1..Len(FILE_TYPE_MAP) |-> FILE_TYPE_MAP[i].cat]

CategorySet == {Categories[i] : i \in 1..Len(Categories)}

\* item names organize_directory never classifies or moves
ReservedNames ==
  { <<"f","i","l","e","_","o","r","g","a","n","i","z","e","r","_","a","p","p",".","p","y">>,
    <<"f","i","l","e","_","o","r","g","a","n","i","z","e","r",".","l","o","g">> }

(***************************************************************************)
(* Strings: str.lower and os.path.splitext.                                *)
(***************************************************************************)
UpperChars == <<"A","B","C","D","E","F","G","H","I","J","K","L","M",
                "N","O","P","Q","R","S","T","U","V","W","X","Y","Z">>

LowerChars == <<"a","b","c","d","e","f","g","h","i","j","k","l","m",
                "n","o","p","q","r","s","t","u","v","w","x","y","z">>

LowerChar(c) ==
  IF \E i \in 1..Len(UpperChars) : UpperChars[i] = c
  THEN LowerChars[CHOOSE i \in 1..Len(UpperChars) : UpperChars[i] = c]
  ELSE c

\* str.lower left out
LowerUnchanged(s) == s

Lower(s) == [i \in 1..Len(s) |-> LowerChar(s[i])]

\* p.rfind("."), 1-based; 0 when there is no dot
RFindDot(p) ==
  IF \E i \in 1..Len(p) : p[i] = "."
  THEN CHOOSE i \in 1..Len(p) : p[i] = "." /\ \A j \in (i+1)..Len(p) : p[j] # "."
  ELSE 0

\* os.path.splitext(p)[1] for a name without separators: the suffix from the
\* last dot, unless every character before that dot is a dot too
SplitExt(p) ==
  LET dotIndex == RFindDot(p)
  IN IF dotIndex > 0 /\ \E k \in 1..(dotIndex - 1) : p[k] # "."
     THEN SubSeq(p, dotIndex, Len(p))
     ELSE <<>>

(***************************************************************************)
(* Classification: the loop of lines 117-121.                              *)
(***************************************************************************)
InExts(ext, exts) == \E k \in 1..Len(exts) : exts[k] = ext

RECURSIVE MatchFrom(_, _)
\* for cat, exts in FILE_TYPE_MAP.items(): if file_ext in exts: category = cat; break
MatchFrom(file_ext, i) ==
  IF i > Len(FILE_TYPE_MAP) THEN Others
  ELSE IF InExts(file_ext, FILE_TYPE_MAP[i].exts) THEN FILE_TYPE_MAP[i].cat
  ELSE MatchFrom(file_ext, i + 1)

(***************************************************************************)
(* The directory tree under the scan root: a function from the paths that  *)
(* exist to their nodes.  A regular file carries the number of its         *)
(* content, a symbolic link the path it points to.                         *)
(***************************************************************************)
FileNode(c) == [kind |-> "file", content |-> c, target |-> <<>>]

DirNode == [kind |-> "dir", content |-> 0, target |-> <<>>]

LinkNode(t) == [kind |-> "link", content |-> 0, target |-> t]

NoNode == [kind |-> "none", content |-> 0, target |-> <<>>]

\* byte length of each file content, by content number
FileSizes == <<2048, 100, 500, 7>>

Root == <<>>

Parent(p) == SubSeq(p, 1, Len(p) - 1)

\* os.path.basename
BaseName(p) == p[Len(p)]

IsPrefix(p, q) == Len(p) <= Len(q) /\ SubSeq(q, 1, Len(p)) = p

\* os.path.lexists: the entry itself is there
LExists(fs, p) == p \in DOMAIN fs

\* os.stat: the node a path names, symbolic links followed
Stat(fs, p) ==
  IF p \notin DOMAIN fs THEN NoNode
  ELSE IF fs[p].kind = "link"
       THEN (IF fs[p].target \in DOMAIN fs THEN fs[fs[p].target] ELSE NoNode)
       ELSE fs[p]

\* os.path.exists
Exists(fs, p) == Stat(fs, p).kind # "none"

\* os.path.isdir
IsDir(fs, p) == Stat(fs, p).kind = "dir"

\* os.path.getsize raises OSError exactly when os.stat does
CanStat(fs, p) == Exists(fs, p)

GetSize(fs, p) ==
  IF Stat(fs, p).kind = "file" THEN FileSizes[Stat(fs, p).content] ELSE 0

\* the directory a path that names a directory stands for
RealDir(fs, p) == IF fs[p].kind = "link" THEN fs[p].target ELSE p

\* names of the immediate entries of the scan root
RootNames(fs) == {p[1] : p \in {q \in DOMAIN fs : Len(q) = 1}}

RECURSIVE MakeDirs(_, _)
\* os.makedirs(p, exist_ok=True): [ok, fs]
MakeDirs(fs, p) ==
  IF IsDir(fs, p) THEN [ok |-> TRUE, fs |-> fs]
  ELSE IF LExists(fs, p) THEN [ok |-> FALSE, fs |-> fs]
  ELSE LET up == MakeDirs(fs, Parent(p))
       IN IF up.ok
          THEN [ok |-> TRUE,
                fs |-> [q \in DOMAIN up.fs \cup {p} |->
                          IF q = p THEN DirNode ELSE up.fs[q]]]
          ELSE up

\* a copy that leaves the source in place
RenameKeepsSource(fs, src, dst) ==
  LET moved == {q \in DOMAIN fs : IsPrefix(src, q)}
      to(q) == dst \o SubSeq(q, Len(src) + 1, Len(q))
      made  == {to(q) : q \in moved}
  IN [p \in DOMAIN fs \cup made |->
        IF p \in made THEN fs[CHOOSE q \in moved : to(q) = p] ELSE fs[p]]

\* os.rename(src, dst) of an entry with everything below it; an existing
\* non-directory dst is replaced
Rename(fs, src, dst) ==
  LET moved == {q \in DOMAIN fs : IsPrefix(src, q)}
      kept  == (DOMAIN fs \ moved) \ {dst}
      to(q) == dst \o SubSeq(q, Len(src) + 1, Len(q))
  IN [p \in kept \cup {to(q) : q \in moved} |->
        IF p \in kept THEN fs[p]
        ELSE fs[CHOOSE q \in moved : to(q) = p]]

\* shutil.move(src, dst): [err, fs]; err is "none", "shutil.Error" (the
\* destination inside an existing directory is taken) or "OSError"
ShutilMove(fs, src, dst) ==
  LET into     == IsDir(fs, dst)
      real_dst == IF into THEN Append(RealDir(fs, dst), BaseName(src)) ELSE dst
  IN IF into /\ Exists(fs, real_dst)
     THEN [err |-> "shutil.Error", fs |-> fs]
     ELSE IF \/ ~LExists(fs, src)
             \/ ~IsDir(fs, Parent(real_dst))
             \/ IsPrefix(src, real_dst)
             \/ fs[src].kind = "dir" /\ LExists(fs, real_dst)
          THEN [err |-> "OSError", fs |-> fs]
          ELSE [err |-> "none", fs |-> Rename(fs, src, real_dst)]

(***************************************************************************)
(* organize_directory.  A run context holds what the run reads and writes: *)
(* the tree, the action log, the locals analytics_data, all_file_sizes and *)
(* files_processed_count, the lines given to log_and_update, and the       *)
(* (name, extension, size, category, destination) of each classified file. *)
(***************************************************************************)
Msg(level, what, item) == [level |-> level, what |-> what, item |-> item]

\* lines 95-96
EmptyAnalytics == [c \in CategorySet |-> [count |-> 0, size |-> 0]]

\* lines 122-123
AddToAnalytics(analytics_data, category, file_size) ==
  [analytics_data EXCEPT ![category] =
     [count |-> @.count + 1, size |-> @.size + file_size]]

\* lines 135-144: makedirs, shutil.move, record the action; a shutil.Error
\* is a warning, any other exception an error, and both leave the file
MoveItem(c, item_name, category) ==
  LET source_item_path == <<item_name>>
      dest_folder_path == <<category>>
      final_dest_path  == <<category, item_name>>
      made  == MakeDirs(c.fs, dest_folder_path)
      moved == ShutilMove(made.fs, source_item_path, final_dest_path)
  IN IF ~made.ok
     THEN [c EXCEPT !.msgs = Append(@, Msg("error", "move_error", item_name))]
     ELSE IF moved.err = "none"
     THEN [c EXCEPT !.fs = moved.fs,
                    !.msgs = Append(@, Msg("info", "moved", item_name)),
                    !.log = Append(@, <<final_dest_path, source_item_path>>),
                    !.count = @ + 1]
     ELSE IF moved.err = "shutil.Error"
     THEN [c EXCEPT !.fs = made.fs,
                    !.msgs = Append(@, Msg("warning", "move_warning", item_name))]
     ELSE [c EXCEPT !.fs = made.fs,
                    !.msgs = Append(@, Msg("error", "move_error", item_name))]

\* lines 131-133
PreviewItem(c, item_name) ==
  [c EXCEPT !.msgs = Append(@, Msg("info", "would_move", item_name)),
            !.count = @ + 1]

\* lines 104-144: the body of the loop for one listed item
OrganizeItem(c, item_name, dry_run) ==
  LET source_item_path == <<item_name>>
  IN IF item_name \in ReservedNames THEN c
     ELSE IF IsDir(c.fs, source_item_path)
     THEN [c EXCEPT !.msgs = Append(@, Msg("info", "skip_directory", item_name))]
     ELSE IF ~CanStat(c.fs, source_item_path)
     THEN [c EXCEPT !.msgs = Append(@, Msg("warning", "analyze_warning", item_name))]
     ELSE LET file_ext  == Lower(SplitExt(item_name))
              file_size == GetSize(c.fs, source_item_path)
              category  == MatchFrom(file_ext, 1)
              c1 == [c EXCEPT
                       !.sizes = Append(@, file_size),
                       !.analytics = AddToAnalytics(@, category, file_size),
                       !.records = Append(@, [name |-> item_name,
                                              ext |-> file_ext,
                                              size |-> file_size,
                                              category |-> category,
                                              dest |-> <<category, item_name>>])]
          IN IF dry_run THEN PreviewItem(c1, item_name)
             ELSE MoveItem(c1, item_name, category)

RECURSIVE OrganizeItems(_, _, _, _)
\* line 103: for item_name in all_items
OrganizeItems(c, all_items, i, dry_run) ==
  IF i > Len(all_items) THEN c
  ELSE OrganizeItems(OrganizeItem(c, all_items[i], dry_run), all_items, i + 1, dry_run)

\* the log cleared by every run, dry or not
StartLogAlwaysClears(log, dry_run) == <<>>

\* the log never cleared
StartLogNeverClears(log, dry_run) == log

\* lines 92-93: a real run starts from an empty action log
StartLog(log, dry_run) == IF dry_run THEN log ELSE <<>>

\* lines 89-98: the context a run starts from
StartRun(tree, log, dry_run) ==
  [fs |-> tree,
   log |-> StartLog(log, dry_run),
   analytics |-> EmptyAnalytics,
   sizes |-> <<>>,
   count |-> 0,
   records |-> <<>>,
   msgs |-> <<Msg("info", "start", <<>>)>>]

\* lines 146-157: the closing lines of a run whose listing succeeded
EndRun(c) ==
  [c EXCEPT !.msgs =
     (IF c.count = 0 THEN Append(@, Msg("info", "no_new_files", <<>>)) ELSE @)
       \o <<Msg("info", "complete", <<>>)>>]

\* lines 79-157: a whole run over the listing all_items; listed = FALSE is
\* os.listdir raising, which the handler of line 154 reports
OrganizeDirectory(tree, log, all_items, dry_run, listed) ==
  LET c0 == StartRun(tree, log, dry_run)
  IN IF listed
     THEN EndRun(OrganizeItems(c0, all_items, 1, dry_run))
     ELSE [c0 EXCEPT !.msgs = Append(@, Msg("error", "unexpected_error", <<>>))]

(***************************************************************************)
(* undo_last_organization.                                                 *)
(***************************************************************************)
\* lines 173-178: one recorded action; action = <<source, dest>>
UndoAction(u, action) ==
  LET source == action[1]
      dest   == action[2]
      made   == MakeDirs(u.fs, Parent(dest))
      moved  == ShutilMove(made.fs, source, dest)
      ok     == made.ok /\ moved.err = "none"
  IN [fs |-> IF ok THEN moved.fs ELSE made.fs,
      attempts |-> Append(u.attempts, [action |-> action, ok |-> ok]),
      msgs |-> Append(u.msgs,
                 IF ok THEN Msg("info", "reverted", BaseName(source))
                 ELSE Msg("info", "undo_error", BaseName(source)))]

RECURSIVE UndoUp(_, _, _)
UndoUp(u, actions, j) ==
  IF j > Len(actions) THEN u
  ELSE UndoUp(UndoAction(u, actions[j]), actions, j + 1)

\* the actions replayed oldest first
UndoForward(u, actions, i) == UndoUp(u, actions, 1)

RECURSIVE UndoFrom(_, _, _)
\* line 172: for source, dest in reversed(self.last_move_actions)
UndoFrom(u, actions, i) ==
  IF i < 1 THEN u
  ELSE UndoFrom(UndoAction(u, actions[i]), actions, i - 1)

\* lines 159-181: [fs, log, attempts, msgs]
UndoLastOrganization(tree, actions) ==
  IF actions = <<>>
  THEN [fs |-> tree, log |-> actions, attempts |-> <<>>,
        msgs |-> <<Msg("info", "no_actions_to_undo", <<>>)>>]
  ELSE LET u == UndoFrom([fs |-> tree, attempts |-> <<>>,
                          msgs |-> <<Msg("info", "undo_start", <<>>)>>],
                         actions, Len(actions))
       IN [fs |-> u.fs, log |-> <<>>, attempts |-> u.attempts,
           msgs |-> Append(u.msgs, Msg("info", "undo_complete", <<>>))]

(***************************************************************************)
(* State.                                                                  *)
(***************************************************************************)
VARIABLES
  fs,                 \* the directory tree under the scan root
  last_move_actions,  \* self.last_move_actions: <<destination, source>> pairs
  last,               \* the last operation: its inputs, results and emissions
  organize_button,    \* state of self.organize_button
  undo_button,        \* state of self.undo_button
  after_queue,        \* callbacks given to root.after, not yet run
  organizer,          \* the thread running organize_directory
  undoers             \* the threads running undo_last_organization

vars == <<fs, last_move_actions, last, organize_button, undo_button,
          after_queue, organizer, undoers>>

gui == <<organize_button, undo_button, after_queue, organizer, undoers>>

(***************************************************************************)
(* Initial directories.                                                    *)
(***************************************************************************)
NameJPG == <<"a", ".", "J", "P", "G">>

NameTXT == <<"b", ".", "t", "x", "t">>

NameXYZ == <<"c", ".", "x", "y", "z">>

NameDot == <<".", "p", "y">>

NameLog == <<"f","i","l","e","_","o","r","g","a","n","i","z","e","r",".","l","o","g">>

\* the entries a scan root may start with: for each name, the subtrees it may
\* be, each a set of <<path, node>> pairs
Variants(name) ==
  IF name = NameJPG THEN { {<<(<<NameJPG>>), FileNode(1)>>} }
  ELSE IF name = NameTXT
  THEN { {<<(<<NameTXT>>), FileNode(2)>>},
         {<<(<<NameTXT>>), LinkNode(<<NameJPG>>)>>} }
  ELSE IF name = NameXYZ THEN { {<<(<<NameXYZ>>), FileNode(3)>>} }
  ELSE IF name = NameDot THEN { {<<(<<NameDot>>), FileNode(2)>>} }
  ELSE IF name = NameLog THEN { {<<(<<NameLog>>), FileNode(4)>>} }
  ELSE { {<<(<<Images>>), FileNode(3)>>},
         {<<(<<Images>>), DirNode>>},
         {<<(<<Images>>), DirNode>>, <<(<<Images, NameJPG>>), FileNode(4)>>},
         {<<(<<Images>>), DirNode>>, <<(<<Images, NameJPG>>), DirNode>>},
         {<<(<<Images>>), DirNode>>, <<(<<Images, NameJPG>>), DirNode>>,
          <<(<<Images, NameJPG, NameJPG>>), FileNode(4)>>} }

InitialNames == {NameJPG, NameTXT, NameXYZ, NameDot, NameLog, Images}

TreeOf(pairs) ==
  [p \in {x[1] : x \in pairs} |-> (CHOOSE x \in pairs : x[1] = p)[2]]

InitialTrees ==
  { TreeOf({<<Root, DirNode>>} \cup UNION {pick[n] : n \in S}) :
      <<S, pick>> \in
        { sp \in UNION { {S} \X [S -> UNION {Variants(n) : n \in S}] :
                           S \in {T \in SUBSET InitialNames :
                                    Cardinality(T) <= MaxEntries} } :
            \A n \in sp[1] : sp[2][n] \in Variants(n) } }

(***************************************************************************)
(* os.listdir: the entries of the scan root in an order the file system    *)
(* picks.  Directories and reserved names are skipped wherever they stand  *)
(* in the listing, so they are listed first, in one fixed order; the other *)
(* entries follow in any order.                                            *)
(***************************************************************************)
Perms(S) ==
  {s \in [1..Cardinality(S) -> S] : \A i, j \in 1..Cardinality(S) : s[i] = s[j] => i = j}

ListDir(tree) ==
  LET skipped == {n \in RootNames(tree) : n \in ReservedNames \/ IsDir(tree, <<n>>)}
      first   == CHOOSE s \in Perms(skipped) : TRUE
  IN {first \o s : s \in Perms(RootNames(tree) \ skipped)}

(***************************************************************************)
(* The record of an operation.                                             *)
(***************************************************************************)
NoTree == <<>>

NoRun ==
  [op |-> "none", dry_run |-> FALSE, listed |-> FALSE,
   pre_fs |-> NoTree, pre_log |-> <<>>, all_items |-> <<>>,
   analytics |-> EmptyAnalytics, sizes |-> <<>>, count |-> 0,
   records |-> <<>>, attempts |-> <<>>, msgs |-> <<>>,
   prev_op |-> "none", prev_quiet |-> FALSE, prev_fs |-> NoTree]

\* the kind of an operation, as the next operation remembers it
KindOf(run) ==
  IF run.op = "organize"
  THEN (IF ~run.listed THEN "failed" ELSE IF run.dry_run THEN "preview" ELSE "organize")
  ELSE run.op

\* no warning and no error among the lines of a run
Quiet(run) == \A k \in 1..Len(run.msgs) : run.msgs[k].level = "info"

\* no thread runs organize_directory
IdleOrganizer ==
  [pc |-> "idle", dry_run |-> FALSE, all_items |-> <<>>, i |-> 0,
   analytics |-> EmptyAnalytics, sizes |-> <<>>, count |-> 0]

Init ==
  /\ fs \in InitialTrees
  /\ last_move_actions = <<>>
  /\ last = NoRun
  /\ organize_button = "normal"
  /\ undo_button = "disabled"
  /\ after_queue = <<>>
  /\ organizer = IdleOrganizer
  /\ undoers = <<>>

(***************************************************************************)
(* Engine operations, each run from start to end.                          *)
(***************************************************************************)
Organize(dry_run, all_items, listed) ==
  \E r \in {OrganizeDirectory(fs, last_move_actions, all_items, dry_run, listed)} :
     /\ fs' = r.fs
     /\ last_move_actions' = r.log
     /\ last' = [NoRun EXCEPT
                   !.op = "organize", !.dry_run = dry_run, !.listed = listed,
                   !.pre_fs = fs, !.pre_log = last_move_actions,
                   !.all_items = all_items,
                   !.analytics = r.analytics, !.sizes = r.sizes,
                   !.count = r.count, !.records = r.records, !.msgs = r.msgs,
                   !.prev_op = KindOf(last), !.prev_quiet = Quiet(last)]
     /\ UNCHANGED gui

Undo ==
  \E r \in {UndoLastOrganization(fs, last_move_actions)} :
     /\ fs' = r.fs
     /\ last_move_actions' = r.log
     /\ last' = [NoRun EXCEPT
                   !.op = "undo",
                   !.pre_fs = fs, !.pre_log = last_move_actions,
                   !.attempts = r.attempts, !.msgs = r.msgs,
                   !.prev_op = KindOf(last),
                   !.prev_fs = IF KindOf(last) = "organize" THEN last.pre_fs ELSE NoTree]
     /\ undo_button' = IF last_move_actions = <<>> THEN undo_button ELSE "disabled"
     /\ UNCHANGED <<organize_button, after_queue, organizer, undoers>>

\* the user deletes an organized file from its category folder
ExternalDelete(p) ==
  /\ p \in DOMAIN fs
  /\ \E k \in 1..Len(last_move_actions) : last_move_actions[k][1] = p
  /\ fs' = [q \in {x \in DOMAIN fs : ~IsPrefix(p, x)} |-> fs[q]]
  /\ last' = [NoRun EXCEPT !.op = "external", !.pre_fs = fs,
                           !.pre_log = last_move_actions,
                           !.prev_op = KindOf(last)]
  /\ UNCHANGED <<last_move_actions, gui>>

Next ==
  \/ \E dry_run \in BOOLEAN : \E all_items \in ListDir(fs) :
       Organize(dry_run, all_items, TRUE)
  \/ \E dry_run \in BOOLEAN : Organize(dry_run, <<>>, FALSE)
  \/ Undo
  \/ \E p \in DOMAIN fs : ExternalDelete(p)

Spec == Init /\ [][Next]_vars

(***************************************************************************)
(* The application: the Tk main loop (clicks, root.after callbacks) and    *)
(* the worker threads, which may interleave between two listed items and   *)
(* between two recorded actions.  The lines given to update_log_area only  *)
(* change the log widget and are left out of after_queue.                  *)
(***************************************************************************)
GuiTrees == {t \in InitialTrees : RootNames(t) \subseteq {NameJPG, NameXYZ, Images}}

GuiInit ==
  /\ fs \in GuiTrees
  /\ last_move_actions = <<>>
  /\ last = NoRun
  /\ organize_button = "normal"
  /\ undo_button = "disabled"
  /\ after_queue = <<>>
  /\ organizer = IdleOrganizer
  /\ undoers = <<>>

\* s without its k-th element
RemoveAt(s, k) == SubSeq(s, 1, k - 1) \o SubSeq(s, k + 1, Len(s))

\* lines 378-390: a click on the enabled organize button
StartOrganizationThread(is_dry_run) ==
  /\ organize_button = "normal"
  /\ IsDir(fs, Root)
  /\ organize_button' = "disabled"
  /\ undo_button' = "disabled"
  /\ organizer' = [IdleOrganizer EXCEPT !.pc = "start", !.dry_run = is_dry_run]
  /\ UNCHANGED <<fs, last_move_actions, last, after_queue, undoers>>

\* lines 89-101: the run clears the log and lists the directory
OrganizerList(all_items) ==
  /\ organizer.pc = "start"
  /\ last_move_actions' = StartLog(last_move_actions, organizer.dry_run)
  /\ organizer' = [organizer EXCEPT !.pc = "loop", !.all_items = all_items, !.i = 1]
  /\ UNCHANGED <<fs, last, organize_button, undo_button, after_queue, undoers>>

\* lines 89-101, 154-157: os.listdir raises; the run reports it and ends
OrganizerListFails ==
  /\ organizer.pc = "start"
  /\ last_move_actions' = StartLog(last_move_actions, organizer.dry_run)
  /\ after_queue' = Append(after_queue, [was_dry_run |-> organizer.dry_run])
  /\ organizer' = IdleOrganizer
  /\ UNCHANGED <<fs, last, organize_button, undo_button, undoers>>

\* lines 103-144: the next listed item
OrganizerItem ==
  /\ organizer.pc = "loop"
  /\ organizer.i <= Len(organizer.all_items)
  /\ \E r \in {OrganizeItem([fs |-> fs, log |-> last_move_actions,
                             analytics |-> organizer.analytics,
                             sizes |-> organizer.sizes,
                             count |-> organizer.count,
                             records |-> <<>>, msgs |-> <<>>],
                            organizer.all_items[organizer.i],
                            organizer.dry_run)} :
       /\ fs' = r.fs
       /\ last_move_actions' = r.log
       /\ organizer' = [organizer EXCEPT !.i = @ + 1, !.analytics = r.analytics,
                                         !.sizes = r.sizes, !.count = r.count]
  /\ UNCHANGED <<last, organize_button, undo_button, after_queue, undoers>>

\* lines 146-157: the listing is used up; finalize_organization is queued
OrganizerFinish ==
  /\ organizer.pc = "loop"
  /\ organizer.i > Len(organizer.all_items)
  /\ after_queue' = Append(after_queue, [was_dry_run |-> organizer.dry_run])
  /\ organizer' = IdleOrganizer
  /\ UNCHANGED <<fs, last_move_actions, last, organize_button, undo_button, undoers>>

\* lines 400-403: the main loop runs the queued finalize_organization
FinalizeOrganization ==
  /\ after_queue # <<>>
  /\ organize_button' = "normal"
  /\ undo_button' = IF ~after_queue[1].was_dry_run /\ last_move_actions # <<>>
                    THEN "normal" ELSE undo_button
  /\ after_queue' = Tail(after_queue)
  /\ UNCHANGED <<fs, last_move_actions, last, organizer, undoers>>

\* lines 392-394: a click on the enabled undo button
StartUndoThread ==
  /\ undo_button = "normal"
  /\ Len(undoers) < MaxUndoThreads
  /\ undoers' = Append(undoers, [pc |-> "start", index |-> 0])
  /\ UNCHANGED <<fs, last_move_actions, last, organize_button, undo_button,
                 after_queue, organizer>>

\* lines 161-172: nothing to undo, or disable the button and start at the
\* most recent action
UndoerStart(k) ==
  /\ undoers[k].pc = "start"
  /\ IF last_move_actions = <<>>
     THEN /\ undoers' = RemoveAt(undoers, k)
          /\ UNCHANGED undo_button
     ELSE /\ undoers' = [undoers EXCEPT ![k] = [pc |-> "loop",
                                               index |-> Len(last_move_actions)]]
          /\ undo_button' = "disabled"
  /\ UNCHANGED <<fs, last_move_actions, last, organize_button, after_queue, organizer>>

\* lines 172-178: the reversed iterator yields the action at its index while
\* the index is inside the list
UndoerStep(k) ==
  /\ undoers[k].pc = "loop"
  /\ undoers[k].index \in 1..Len(last_move_actions)
  /\ \E r \in {UndoAction([fs |-> fs, attempts |-> <<>>, msgs |-> <<>>],
                          last_move_actions[undoers[k].index])} :
       fs' = r.fs
  /\ undoers' = [undoers EXCEPT ![k].index = @ - 1]
  /\ UNCHANGED <<last_move_actions, last, organize_button, undo_button,
                 after_queue, organizer>>

\* lines 180-181: the iterator is used up; the log is cleared
UndoerFinish(k) ==
  /\ undoers[k].pc = "loop"
  /\ undoers[k].index \notin 1..Len(last_move_actions)
  /\ last_move_actions' = <<>>
  /\ undoers' = RemoveAt(undoers, k)
  /\ UNCHANGED <<fs, last, organize_button, undo_button, after_queue, organizer>>

GuiNext ==
  \/ \E is_dry_run \in BOOLEAN : StartOrganizationThread(is_dry_run)
  \/ \E all_items \in ListDir(fs) : OrganizerList(all_items)
  \/ OrganizerListFails
  \/ OrganizerItem
  \/ OrganizerFinish
  \/ FinalizeOrganization
  \/ StartUndoThread
  \/ \E k \in 1..Len(undoers) : UndoerStart(k)
  \/ \E k \in 1..Len(undoers) : UndoerStep(k)
  \/ \E k \in 1..Len(undoers) : UndoerFinish(k)

GuiSpec == GuiInit /\ [][GuiNext]_vars

TypeOK ==
  /\ \A p \in DOMAIN fs : fs[p].kind \in {"file", "dir", "link"}
  /\ \A p \in DOMAIN fs : p # Root => fs[Parent(p)].kind = "dir"
  /\ fs[Root].kind = "dir"

(***************************************************************************)
(* Properties.                                                             *)
(***************************************************************************)
\* the last operation was a real (non-dry-run) organize whose listing succeeded
RealRunDone == last.op = "organize" /\ ~last.dry_run /\ last.listed

\* the last operation was an undo of a non-empty log that directly followed
\* the real organize run that wrote that log
UndoAfterOrganize ==
  last.op = "undo" /\ last.prev_op = "organize" /\ last.pre_log # <<>>

\* C1: after a real organize run directly followed by undo, every file the
\* run moved (every source recorded in its log) is back at its original path
\* with the node it had before the run, and its category path is vacated.
C1_RoundTripRestores ==
  UndoAfterOrganize =>
    \A k \in 1..Len(last.pre_log) :
      LET dst == last.pre_log[k][1]
          src == last.pre_log[k][2]
      IN /\ src \in DOMAIN fs
         /\ fs[src] = last.prev_fs[src]
         /\ dst \notin DOMAIN fs

\* C2: after a real organize run directly followed by undo, the whole tree
\* (files and subdirectories) is the tree from before the organize run.
C2_RoundTripTreeIdentity ==
  UndoAfterOrganize => fs = last.prev_fs

\* C3: a dry run leaves the tree (files, subdirectories, locations) and the
\* action log exactly as they were before it.
C3_DryRunChangesNothing ==
  (last.op = "organize" /\ last.dry_run) =>
    /\ fs = last.pre_fs
    /\ last_move_actions = last.pre_log

C3_Witness ==
  /\ last.op = "organize" /\ last.dry_run /\ last.listed
  /\ last.count >= 1
  /\ last.pre_log # <<>>

\* C4: a real run computes the analytics (per-category count and size, and
\* the list of sizes) that a dry run over the same tree and listing computes.
C4_DryRunAnalyticsEquivalence ==
  RealRunDone =>
    LET d == OrganizeDirectory(last.pre_fs, last.pre_log, last.all_items, TRUE, TRUE)
    IN /\ d.analytics = last.analytics
       /\ d.sizes = last.sizes

\* C5 as claimed: a real run directly after a real run classifies nothing,
\* counts 0, moves nothing, leaves the log empty and emits no warning or error.
C5_SecondRunIdle ==
  (RealRunDone /\ last.prev_op = "organize") =>
    /\ last.records = <<>>
    /\ last.count = 0
    /\ fs = last.pre_fs
    /\ last_move_actions = <<>>
    /\ Quiet(last)

\* C5 amended: the same, when the first run emitted no warning and no error,
\* that is, when it moved every file it met.
C5_SecondRunIdleAfterQuietRun ==
  (RealRunDone /\ last.prev_op = "organize" /\ last.prev_quiet) =>
    /\ last.records = <<>>
    /\ last.count = 0
    /\ fs = last.pre_fs
    /\ last_move_actions = <<>>
    /\ Quiet(last)

C5_Witness ==
  /\ RealRunDone /\ last.prev_op = "organize" /\ last.prev_quiet
  /\ Len(last.pre_log) >= 2
  /\ last.records = <<>>

\* the first category, in rule-table order, whose extension set holds ext;
\* Others when there is none
FirstMatch(ext) ==
  LET hits == {i \in 1..Len(FILE_TYPE_MAP) : InExts(ext, FILE_TYPE_MAP[i].exts)}
  IN IF hits = {} THEN Others
     ELSE FILE_TYPE_MAP[CHOOSE i \in hits : \A j \in hits : i <= j].cat

\* what the listed names of the model resolve to
ExpectedCategory(name) ==
  IF name = NameJPG THEN Images
  ELSE IF name = NameTXT THEN Documents
  ELSE Others

\* the listed entries a run classifies, seen before the run
Classifiable(tree, name) ==
  /\ name \notin ReservedNames
  /\ ~IsDir(tree, <<name>>)
  /\ CanStat(tree, <<name>>)

\* C6: every classified file resolves to the first category whose extension
\* set holds its lowercased extension, to Others exactly when none does, and
\* its destination is <category>/<unchanged file name>; a dry run classifies
\* every listed file that is neither a directory nor reserved.
C6_Classification ==
  last.op = "organize" =>
    /\ \A k \in 1..Len(last.records) :
         LET r == last.records[k]
         IN /\ r.name \notin ReservedNames
            /\ ~IsDir(last.pre_fs, <<r.name>>)
            /\ r.category = FirstMatch(r.ext)
            /\ r.category = ExpectedCategory(r.name)
            /\ (r.category = Others) <=>
                 (\A i \in 1..Len(FILE_TYPE_MAP) : ~InExts(r.ext, FILE_TYPE_MAP[i].exts))
            /\ r.dest = <<r.category, r.name>>
    /\ (last.dry_run /\ last.listed) =>
         [k \in 1..Len(last.records) |-> last.records[k].name]
           = SelectSeq(last.all_items, LAMBDA n : Classifiable(last.pre_fs, n))
    /\ \A k \in 1..Len(last_move_actions) :
         (~last.dry_run) =>
            \E j \in 1..Len(last.records) :
               last_move_actions[k] = <<last.records[j].dest, <<last.records[j].name>>>>

C6_Witness ==
  /\ last.op = "organize" /\ last.listed
  /\ \E k \in 1..Len(last.records) :
       last.records[k].name = NameJPG /\ last.records[k].category = Images
  /\ \E k \in 1..Len(last.records) : last.records[k].category = Others

\* the part of a tree at and below a path
SubTree(tree, p) == [q \in {x \in DOMAIN tree : IsPrefix(p, x)} |-> tree[q]]

\* C7: a file whose category folder already held an entry of its name stays
\* in the scan root, that entry is left as it was, and no action is logged.
C7_SkipOnCollision ==
  RealRunDone =>
    \A k \in 1..Len(last.records) :
      LET r == last.records[k]
      IN r.dest \in DOMAIN last.pre_fs =>
           /\ <<r.name>> \in DOMAIN fs
           /\ fs[<<r.name>>] = last.pre_fs[<<r.name>>]
           /\ SubTree(fs, r.dest) = SubTree(last.pre_fs, r.dest)
           /\ \A j \in 1..Len(last_move_actions) :
                last_move_actions[j][2] # <<r.name>>

\* the threads that are inside the loop of organize_directory or of
\* undo_last_organization
ActiveRuns ==
  (IF organizer.pc = "loop" THEN 1 ELSE 0)
    + Cardinality({k \in 1..Len(undoers) : undoers[k].pc = "loop"})

\* C8: at most one of organize_directory and undo_last_organization is
\* executing at any time.
C8_SingleActiveRun == ActiveRuns <= 1

\* the organize button is enabled only while no thread runs organize_directory
OneOrganizer == organize_button = "normal" => organizer.pc = "idle"

\* the listed names a run moved out of the scan root, in listing order
MovedNames ==
  SelectSeq(last.all_items,
            LAMBDA n : /\ <<n>> \in DOMAIN last.pre_fs
                       /\ last.pre_fs[<<n>>].kind # "dir"
                       /\ (<<n>> \notin DOMAIN fs \/ fs[<<n>>] # last.pre_fs[<<n>>]))

\* C9: when a real run ends, the log is exactly the <<destination, source>>
\* pairs of the files this run moved, in the order of the moves, its length
\* is processed_count, and it is empty with count 0 when the listing failed.
C9_LogIsOneGeneration ==
  (last.op = "organize" /\ ~last.dry_run) =>
    /\ Len(last_move_actions) = last.count
    /\ last_move_actions =
         [k \in 1..Len(MovedNames) |->
            <<(<<FirstMatch(Lower(SplitExt(MovedNames[k]))), MovedNames[k]>>),
              (<<MovedNames[k]>>)>>]
    /\ ~last.listed => (last_move_actions = <<>> /\ last.count = 0)

C9_Witness ==
  /\ RealRunDone
  /\ last.pre_log # <<>>
  /\ last.count >= 1
  /\ \E k \in 1..Len(last.pre_log) :
       \A j \in 1..Len(last_move_actions) : last_move_actions[j] # last.pre_log[k]

\* C10: an undo of a non-empty log attempts every recorded action once, the
\* most recent first; a failed attempt stops nothing and undoes nothing
\* (the source of every successful attempt stays vacated); the log ends empty.
C10_UndoPass ==
  (last.op = "undo" /\ last.pre_log # <<>>) =>
    /\ Len(last.attempts) = Len(last.pre_log)
    /\ \A k \in 1..Len(last.attempts) :
         /\ last.attempts[k].action = last.pre_log[Len(last.pre_log) - k + 1]
         /\ last.attempts[k].ok => last.attempts[k].action[1] \notin DOMAIN fs
    /\ last_move_actions = <<>>

C10_Witness ==
  /\ last.op = "undo"
  /\ Len(last.attempts) >= 2
  /\ ~last.attempts[1].ok
  /\ last.attempts[2].ok

\* no run is in flight and every queued finalize_organization has run
Quiescent == organizer.pc = "idle" /\ undoers = <<>> /\ after_queue = <<>>

\* C11: whenever no organize or undo run is in flight and finalize has been
\* delivered, the undo button is enabled exactly when the action log is
\* non-empty.
C11_UndoGating ==
  Quiescent => (undo_button = "normal" <=> last_move_actions # <<>>)
====
